---------------------------- MODULE Spec2Model ----------------------------
(***************************************************************************)
(* Submit-a-text: the /api/new-sale and /api/inbound-sms handlers of       *)
(* main.py over the statement-at-a-time database layer of db.py.           *)
(*                                                                         *)
(* db.py opens a connection and commits for every statement, so a handler  *)
(* is a sequence of separately committed statements.  A handler never      *)
(* awaits after reading its request, so within one server process calls    *)
(* run one after the other (SeqSpec); calls handled by several server      *)
(* processes over the same database interleave statement by statement      *)
(* (Spec).                                                                 *)
(*                                                                         *)
(* Python strings are sequences of one-character strings.  A value that    *)
(* may be None (a missing JSON field, a fetch_one miss, a NULL column) is  *)
(* None == <<>> or Some(v) == <<v>>.                                       *)
(***************************************************************************)
EXTENDS Integers, Sequences, FiniteSets, Bags, TLC

VARIABLES
    sales,      \* table sales: sequence of rows, row i has id i (SERIAL, no delete)
    outbound,   \* table outbound_messages, in insertion order
    inbound,    \* table inbound_messages, in insertion order
    gateway,    \* the POSTs made to the provider, in order, with their outcome
    running,    \* the calls being handled: a bag of (position, local variables)
    resp,       \* the response sent last
    accepted,   \* number of requests accepted so far
    normIn,     \* the argument normalize_phone was last applied to
    normOut     \* the value it returned

vars == <<sales, outbound, inbound, gateway, running, resp, accepted, normIn, normOut>>

dbvars == <<sales, outbound, inbound, gateway, running, resp, accepted>>

None == <<>>

Some(v) == <<v>>

---------------------------------------------------------------------------
(* Bounds.                                                                 *)

MaxLen == 11        \* longest raw phone string given to normalize_phone alone

MaxReqs == 3        \* requests accepted in one behaviour

MaxWorkers == 2     \* calls in progress at the same time (server processes)

---------------------------------------------------------------------------
(* normalize_phone, main.py 34-41.                                         *)

\* The characters \d matches among those the model uses.
DigitChars == {"0", "1", "2", "3", "4", "5", "6", "7", "8", "9"}

\* re.sub(r"\D", "", s): drop every character \d does not match.
RECURSIVE re_sub_nondigit(_)
re_sub_nondigit(s) ==
    IF s = <<>> THEN <<>>
    ELSE IF Head(s) \in DigitChars
         THEN <<Head(s)>> \o re_sub_nondigit(Tail(s))
         ELSE re_sub_nondigit(Tail(s))

\* raw or "": None and "" both give "".
OrEmpty(raw) == IF raw = None THEN <<>> ELSE raw[1]

\* Variant: the ten-digit case is not given its country code.
normalize_phone_no_country(raw) ==
    <<"+">> \o re_sub_nondigit(OrEmpty(raw))

normalize_phone(raw) ==
    LET digits == re_sub_nondigit(OrEmpty(raw)) IN
    IF Len(digits) = 10 THEN <<"+", "1">> \o digits
    ELSE IF Len(digits) = 11 /\ Head(digits) = "1" THEN <<"+">> \o digits
    ELSE <<"+">> \o digits

\* Characters the raw strings of the normalizer's own specification are built of:
\* a leading-1 digit, another digit, a separator.
NormChars == {"1", "5", "-"}

\* A caller passes a string one character longer.
NormCall(c) ==
    /\ Len(OrEmpty(normIn)) < MaxLen
    /\ normIn' = Some(Append(OrEmpty(normIn), c))
    /\ normOut' = normalize_phone(normIn')


---------------------------------------------------------------------------
(* The requests the model sends.                                           *)

\* "555-123-4567" and "15551234567": two spellings of one number.
PhoneDashed == <<"5", "5", "5", "-", "1", "2", "3", "-", "4", "5", "6", "7">>

PhoneEleven == <<"1", "5", "5", "5", "1", "2", "3", "4", "5", "6", "7">>

\* "+15551234567": the same number as the provider's webhook spells it.
PhonePlus == <<"+", "1", "5", "5", "5", "1", "2", "3", "4", "5", "6", "7">>

\* The JSON bodies sent to /api/new-sale: the same number in two spellings with
\* different values in every other field, and a body with no phone.
SaleBodies ==
    {[phone |-> Some(PhoneDashed), saleId |-> "S1", agent |-> "Jane", office |-> "NY",
      source |-> "web", healthId |-> "H1", planType |-> "Gold"],
     [phone |-> Some(PhoneEleven), saleId |-> "S2", agent |-> "Raj", office |-> "LA",
      source |-> "call", healthId |-> "H2", planType |-> "Silver"],
     [phone |-> None, saleId |-> "S3", agent |-> "Jane", office |-> "NY",
      source |-> "web", healthId |-> "H3", planType |-> "Gold"]}

\* " stOp\n" and "STOP x".
TextStop == <<" ", "s", "t", "O", "p", "\n">>

TextOther == <<"S", "T", "O", "P", " ", "x">>

\* The data.payload objects sent to /api/inbound-sms, as (from.phone_number, text):
\* a STOP and another text from the number, a STOP with no sender number, and a
\* payload whose text is null.
InboundPayloads ==
    {[from |-> Some(PhonePlus), text |-> Some(TextStop)],
     [from |-> Some(PhonePlus), text |-> Some(TextOther)],
     [from |-> None, text |-> Some(TextStop)],
     [from |-> Some(PhonePlus), text |-> None]}

---------------------------------------------------------------------------
(* str.strip() and str.upper(), main.py 251.                               *)

Whitespace == {" ", "\n", "\t", "\r"}

RECURSIVE lstrip(_)
lstrip(s) ==
    IF s # <<>> /\ Head(s) \in Whitespace THEN lstrip(Tail(s)) ELSE s

RECURSIVE rstrip(_)
rstrip(s) ==
    IF s # <<>> /\ s[Len(s)] \in Whitespace
    THEN rstrip(SubSeq(s, 1, Len(s) - 1))
    ELSE s

strip(s) == rstrip(lstrip(s))

UpperChar(c) ==
    CASE c = "s" -> "S"
      [] c = "t" -> "T"
      [] c = "o" -> "O"
      [] c = "p" -> "P"
      [] c = "x" -> "X"
      [] OTHER -> c

upper(s) == [i \in 1..Len(s) |-> UpperChar(s[i])]

STOP == <<"S", "T", "O", "P">>

\* Variant: the text is not trimmed before the comparison.
IsStopNoStrip(text) == upper(text) = STOP

\* body.strip().upper() == "STOP"
IsStop(text) == upper(strip(text)) = STOP

---------------------------------------------------------------------------
(* The database, db.py: every statement is its own committed transaction.  *)

\* The column default of sales.opted_out; the INSERT of main.py 182-186 names no
\* opted_out column.
OptedOutDefault == FALSE

\* The indices of the rows WHERE phone = p.
RowsWithPhone(p) == {i \in 1..Len(sales) : sales[i].phone = p}

\* fetch_one("SELECT id, opted_out FROM sales WHERE phone = %s"): cur.fetchone()
\* gives one of the matching rows (the statement has no ORDER BY), or None.
fetch_one_by_phone(p) ==
    IF RowsWithPhone(p) = {} THEN {None}
    ELSE {Some([id |-> i, opted_out |-> sales[i].opted_out]) : i \in RowsWithPhone(p)}

\* The row the INSERT of main.py 180-197 adds; RETURNING id is its SERIAL id.
NewSaleRow(phone, body) ==
    [id |-> Len(sales) + 1,
     external_sale_id |-> body.saleId,
     phone |-> phone,
     agent_name |-> body.agent,
     office |-> body.office,
     source |-> body.source,
     health_id |-> body.healthId,
     plan_type |-> body.planType,
     opted_out |-> OptedOutDefault]

\* Variant: the UPDATE also resets opted_out.
UpdatedSaleRowResetOptOut(row, body) ==
    [row EXCEPT !.external_sale_id = body.saleId,
                !.agent_name = body.agent,
                !.office = body.office,
                !.source = body.source,
                !.health_id = body.healthId,
                !.plan_type = body.planType,
                !.opted_out = FALSE]

\* Variant: the UPDATE leaves agent_name out of its SET list.
UpdatedSaleRowKeepAgent(row, body) ==
    [row EXCEPT !.external_sale_id = body.saleId,
                !.office = body.office,
                !.source = body.source,
                !.health_id = body.healthId,
                !.plan_type = body.planType]

\* The SET list of the UPDATE of main.py 159-167.
UpdatedSaleRow(row, body) ==
    [row EXCEPT !.external_sale_id = body.saleId,
                !.agent_name = body.agent,
                !.office = body.office,
                !.source = body.source,
                !.health_id = body.healthId,
                !.plan_type = body.planType]

\* Variant: the UPDATE has no WHERE clause.
OptOutEveryRow(p) ==
    [i \in 1..Len(sales) |-> [sales[i] EXCEPT !.opted_out = TRUE]]

\* UPDATE sales SET opted_out = TRUE WHERE phone = p.
OptOutByPhone(p) ==
    [i \in 1..Len(sales) |->
        IF sales[i].phone = p THEN [sales[i] EXCEPT !.opted_out = TRUE] ELSE sales[i]]

---------------------------------------------------------------------------
(* The messaging gateway, main.py 44-68.                                   *)

TextMsg == "Thank you for enrolling! We're here to help with your coverage. Reply STOP to opt out."

\* What requests.post can do: a 2xx whose JSON is {"data": {"id": ...}}, a 2xx
\* whose JSON has no data.id, or a RequestException (network error, non-2xx).
\* A JSON object is modelled by its data.id path: Some(Some(id)), Some(None), None.
GatewayOutcomes ==
    {[ok |-> TRUE, json |-> Some(Some("tx-1"))],
     [ok |-> TRUE, json |-> Some(None)],
     [ok |-> FALSE, json |-> None]}

\* Variant: the except branch returns another sentinel.
send_sms_via_telnyx_other_sentinel(outcome) ==
    IF outcome.ok THEN outcome.json ELSE Some(Some("ERROR"))

\* The value send_sms_via_telnyx returns: the response's JSON, or the sentinel.
send_sms_via_telnyx(outcome) ==
    IF outcome.ok THEN outcome.json ELSE Some(Some("FAILED"))

\* outbound_resp.get("data", {}).get("id", "FAILED")
provider_sid_of(outbound_resp) ==
    IF outbound_resp = None \/ outbound_resp[1] = None
    THEN "FAILED"
    ELSE outbound_resp[1][1]

---------------------------------------------------------------------------
(* The calls being handled.  A call in progress is its position (pc) and   *)
(* its local variables; the calls in progress are a bag, as two calls may  *)
(* be at the same position with the same locals.                           *)

NoLocals ==
    [pc |-> "none", phone |-> <<>>, body |-> None, text |-> None,
     existing |-> None, sale_id |-> None]

One(h) == SetToBag({h})

Calls == BagToSet(running)

\* A request is accepted while fewer than MaxWorkers are being handled.
CanAccept ==
    /\ accepted < MaxReqs
    /\ BagCardinality(running) < MaxWorkers

DbInit ==
    /\ sales = <<>>
    /\ outbound = <<>>
    /\ inbound = <<>>
    /\ gateway = <<>>
    /\ running = EmptyBag
    /\ resp = None
    /\ accepted = 0

Init ==
    /\ DbInit
    /\ normIn = None
    /\ normOut = normalize_phone(normIn)

---------------------------------------------------------------------------
(* POST /api/new-sale, main.py 133-223.                                    *)

\* 138-144: read the body, normalize the phone, look the Sale up.
NewSaleLookup(body) ==
    /\ accepted' = accepted + 1
    /\ LET clean_phone == normalize_phone(body.phone) IN
          \E existing \in fetch_one_by_phone(clean_phone) :
             running' = running (+) One([NoLocals EXCEPT !.pc = "ns_fetched",
                                                         !.phone = clean_phone,
                                                         !.body = Some(body),
                                                         !.existing = existing])
    /\ UNCHANGED <<sales, outbound, inbound, gateway, resp, normIn, normOut>>

SkipResponse == [ok |-> TRUE, skipped_send |-> TRUE, reason |-> "opted_out"]

\* Variant: the opted-out test is missing.
IsOptedOutNever(existing) == FALSE

\* existing and existing["opted_out"]
IsOptedOut(existing) == existing # None /\ existing[1].opted_out

\* 147-152: skip if opted out.
NS_SkipOptedOut(h) ==
    /\ h.pc = "ns_fetched"
    /\ IsOptedOut(h.existing)
    /\ resp' = Some(SkipResponse)
    /\ running' = running (-) One(h)
    /\ UNCHANGED <<sales, outbound, inbound, gateway, accepted, normIn, normOut>>

\* 155-178: the Sale exists: UPDATE ... WHERE id = sale_id.
NS_Update(h) ==
    /\ h.pc = "ns_fetched"
    /\ ~IsOptedOut(h.existing)
    /\ h.existing # None
    /\ LET sale_id == h.existing[1].id IN
          /\ sales' = [sales EXCEPT ![sale_id] = UpdatedSaleRow(@, h.body[1])]
          /\ running' = (running (-) One(h))
                           (+) One([h EXCEPT !.pc = "ns_send", !.sale_id = Some(sale_id)])
    /\ UNCHANGED <<outbound, inbound, gateway, resp, accepted, normIn, normOut>>

\* 179-198: no Sale: INSERT ... RETURNING id.
NS_Insert(h) ==
    /\ h.pc = "ns_fetched"
    /\ ~IsOptedOut(h.existing)
    /\ h.existing = None
    /\ sales' = Append(sales, NewSaleRow(h.phone, h.body[1]))
    /\ running' = (running (-) One(h))
                     (+) One([h EXCEPT !.pc = "ns_send", !.sale_id = Some(Len(sales) + 1)])
    /\ UNCHANGED <<outbound, inbound, gateway, resp, accepted, normIn, normOut>>

\* 200-223: call the gateway, take the provider id out of what it returns, record
\* the outbound message and respond.  The INSERT follows the call in the same
\* step: no handler reads outbound_messages, so it commutes with every statement
\* of another handler.
NS_SendAndRecord(h) ==
    /\ h.pc = "ns_send"
    /\ \E outcome \in GatewayOutcomes :
          LET provider_sid == provider_sid_of(send_sms_via_telnyx(outcome)) IN
          /\ gateway' = Append(gateway,
                               [to |-> h.phone, text |-> TextMsg, ok |-> outcome.ok])
          /\ outbound' = Append(outbound,
                                [sale_id |-> h.sale_id[1], body |-> TextMsg,
                                 provider |-> "telnyx", provider_sid |-> provider_sid])
          /\ resp' = Some([ok |-> TRUE, sale_id |-> h.sale_id[1],
                           sent_to |-> h.phone,
                           provider_sid |-> provider_sid,
                           skipped_send |-> FALSE])
    /\ running' = running (-) One(h)
    /\ UNCHANGED <<sales, inbound, accepted, normIn, normOut>>

---------------------------------------------------------------------------
(* POST /api/inbound-sms, main.py 230-254.                                 *)

\* 235-249: read the payload, normalize the sender, look the Sale up and store
\* the message.  The INSERT follows the lookup in the same step: no handler reads
\* inbound_messages, so it commutes with every statement of another handler.
InboundReceive(payload) ==
    /\ accepted' = accepted + 1
    /\ LET clean_from == normalize_phone(payload.from) IN
          \E sale_row \in fetch_one_by_phone(clean_from) :
             LET sale_id == IF sale_row = None THEN None ELSE Some(sale_row[1].id) IN
             /\ running' = running (+) One([NoLocals EXCEPT !.pc = "in_stored",
                                                            !.phone = clean_from,
                                                            !.text = payload.text,
                                                            !.sale_id = sale_id])
             /\ inbound' = Append(inbound,
                                  [sale_id |-> sale_id, from_phone |-> clean_from,
                                   body |-> payload.text])
    /\ UNCHANGED <<sales, outbound, gateway, resp, normIn, normOut>>

OkResponse == [ok |-> TRUE]

\* What the framework answers when the handler raises.
ErrorResponse == [ok |-> FALSE, status |-> "500"]

\* 251-254: the text is STOP: UPDATE sales SET opted_out = TRUE WHERE phone.
IN_OptOut(h) ==
    /\ h.pc = "in_stored"
    /\ h.text # None
    /\ IsStop(h.text[1])
    /\ sales' = OptOutByPhone(h.phone)
    /\ resp' = Some(OkResponse)
    /\ running' = running (-) One(h)
    /\ UNCHANGED <<outbound, inbound, gateway, accepted, normIn, normOut>>

\* 251, 254: any other text.
IN_NoStop(h) ==
    /\ h.pc = "in_stored"
    /\ h.text # None
    /\ ~IsStop(h.text[1])
    /\ resp' = Some(OkResponse)
    /\ running' = running (-) One(h)
    /\ UNCHANGED <<sales, outbound, inbound, gateway, accepted, normIn, normOut>>

\* 239, 251: "text": null gives body = None, and None.strip() raises.
IN_TextNull(h) ==
    /\ h.pc = "in_stored"
    /\ h.text = None
    /\ resp' = Some(ErrorResponse)
    /\ running' = running (-) One(h)
    /\ UNCHANGED <<sales, outbound, inbound, gateway, accepted, normIn, normOut>>

---------------------------------------------------------------------------
(* Specifications.                                                         *)

\* The next statement of some call in progress.
Step ==
    \/ \E h \in Calls : NS_SkipOptedOut(h)
    \/ \E h \in Calls : NS_Update(h)
    \/ \E h \in Calls : NS_Insert(h)
    \/ \E h \in Calls : NS_SendAndRecord(h)
    \/ \E h \in Calls : IN_OptOut(h)
    \/ \E h \in Calls : IN_NoStop(h)
    \/ \E h \in Calls : IN_TextNull(h)

\* Requests overlap: the statements of the calls in progress interleave.
Next ==
    \/ CanAccept /\ \E body \in SaleBodies : NewSaleLookup(body)
    \/ CanAccept /\ \E payload \in InboundPayloads : InboundReceive(payload)
    \/ Step

Spec == Init /\ [][Next]_vars

\* Requests run one after the other: one is accepted only when none is in progress.
SeqNext ==
    \/ CanAccept /\ running = EmptyBag /\ \E body \in SaleBodies : NewSaleLookup(body)
    \/ CanAccept /\ running = EmptyBag
         /\ \E payload \in InboundPayloads : InboundReceive(payload)
    \/ Step

SeqSpec == Init /\ [][SeqNext]_vars

\* normalize_phone alone, on every string over NormChars up to MaxLen.
NormInit ==
    /\ DbInit
    /\ normIn \in {None, Some(<<>>)}
    /\ normOut = normalize_phone(normIn)

NormNext == \E c \in NormChars : NormCall(c) /\ UNCHANGED dbvars

NormSpec == NormInit /\ [][NormNext]_vars

---------------------------------------------------------------------------
(* Claims.                                                                 *)

\* The canonical form of the number the requests spell three ways.
CanonPhone == <<"+", "1", "5", "5", "5", "1", "2", "3", "4", "5", "6", "7">>

\* The tables and the gateway are as before the step.
NothingWritten ==
    /\ sales' = sales
    /\ outbound' = outbound
    /\ inbound' = inbound
    /\ gateway' = gateway

\* The step accepts the call g, is the last step of the call h, or takes the
\* call h to g.
Starts(g) == running' = running (+) One(g)

Ends(h) == BagIn(h, running) /\ running' = running (-) One(h)

Moves(h, g) == BagIn(h, running) /\ running' = (running (-) One(h)) (+) One(g)

\* The step is a step of the call h.
StepOf(h) == Ends(h) \/ \E g \in BagToSet(running') : g # h /\ Moves(h, g)

\* C1: in every reachable state, requests overlapping, the sales table holds at
\* most one row for each canonical phone value.
C1_OneSalePerPhone ==
    \A i, j \in 1..Len(sales) : sales[i].phone = sales[j].phone => i = j

\* C2: once a Sale's opted_out is true, no later step sends to its phone through
\* the gateway or inserts an outbound_messages row for a Sale of that phone.
C2_NoSendAfterOptOut ==
    [][\A i \in 1..Len(sales) :
          sales[i].opted_out =>
             /\ \A k \in (Len(gateway) + 1)..Len(gateway') :
                   gateway'[k].to # sales[i].phone
             /\ \A k \in (Len(outbound) + 1)..Len(outbound') :
                   sales'[outbound'[k].sale_id].phone # sales[i].phone]_vars

\* C3: a /api/new-sale call whose lookup found a Sale with opted_out = true writes
\* nothing and calls no gateway, in its lookup and in the step that ends it, and
\* responds ok, skipped_send, reason "opted_out".
C3_OptedOutSkip ==
    [][/\ \A g \in BagToSet(running') :
             (g.pc = "ns_fetched" /\ Starts(g)) => NothingWritten
       /\ \A h \in BagToSet(running) :
             (/\ h.pc = "ns_fetched"
              /\ h.existing # None
              /\ h.existing[1].opted_out
              /\ StepOf(h))
             => /\ NothingWritten
                /\ Ends(h)
                /\ resp' = Some([ok |-> TRUE, skipped_send |-> TRUE,
                                 reason |-> "opted_out"])]_vars

C3_Witness ==
    /\ resp = Some([ok |-> TRUE, skipped_send |-> TRUE, reason |-> "opted_out"])
    /\ \E i \in 1..Len(sales) : sales[i].opted_out

\* C4: when the gateway call of a /api/new-sale call fails, the Sale row stays,
\* exactly one outbound_messages row (provider "telnyx", provider_sid "FAILED")
\* is written for that Sale, and the response is ok with skipped_send false and
\* provider_sid "FAILED".
C4_SendFailureRecorded ==
    [][\A h \in BagToSet(running) :
          (/\ h.pc = "ns_send"
           /\ StepOf(h)
           /\ Len(gateway') = Len(gateway) + 1
           /\ ~gateway'[Len(gateway')].ok)
          => /\ Ends(h)
             /\ sales' = sales
             /\ h.sale_id[1] \in 1..Len(sales)
             /\ sales[h.sale_id[1]].phone = h.phone
             /\ outbound' = Append(outbound,
                                   [sale_id |-> h.sale_id[1], body |-> TextMsg,
                                    provider |-> "telnyx", provider_sid |-> "FAILED"])
             /\ inbound' = inbound
             /\ resp' = Some([ok |-> TRUE, sale_id |-> h.sale_id[1],
                              sent_to |-> h.phone, provider_sid |-> "FAILED",
                              skipped_send |-> FALSE])]_vars

C4_Witness ==
    /\ gateway # <<>>
    /\ ~gateway[Len(gateway)].ok
    /\ outbound # <<>>
    /\ outbound[Len(outbound)].provider_sid = "FAILED"
    /\ resp # None
    /\ resp[1].ok
    /\ resp[1] # [ok |-> TRUE]
    /\ ~resp[1].skipped_send
    /\ resp[1].provider_sid = "FAILED"

\* C5: requests not overlapping, a /api/new-sale call for a phone that has a Sale
\* which is not opted out adds no row, keeps that row's id, phone and opted_out,
\* overwrites its other six fields with the call's values and leaves the other
\* rows alone; one row exists for each phone.
C5_SecondCallUpdates ==
    /\ [][\A h \in BagToSet(running) :
             (h.pc = "ns_fetched" /\ h.existing # None /\ StepOf(h) /\ ~Ends(h))
             => LET id == h.existing[1].id
                    body == h.body[1]
                IN  /\ Len(sales') = Len(sales)
                    /\ \A i \in 1..Len(sales) : i # id => sales'[i] = sales[i]
                    /\ sales[id].phone = normalize_phone(body.phone)
                    /\ sales'[id].id = sales[id].id
                    /\ sales'[id].phone = sales[id].phone
                    /\ sales'[id].opted_out = sales[id].opted_out
                    /\ sales'[id].external_sale_id = body.saleId
                    /\ sales'[id].agent_name = body.agent
                    /\ sales'[id].office = body.office
                    /\ sales'[id].source = body.source
                    /\ sales'[id].health_id = body.healthId
                    /\ sales'[id].plan_type = body.planType]_vars
    /\ [](\A i, j \in 1..Len(sales) : sales[i].phone = sales[j].phone => i = j)

\* The second call, sent as "15551234567" by Raj, has updated the one row.
C5_Witness ==
    /\ \E h \in Calls :
          /\ h.pc = "ns_send"
          /\ h.existing # None
          /\ h.body[1].phone = Some(PhoneEleven)
    /\ Len(outbound) = 1
    /\ Len(sales) = 1
    /\ sales[1].phone = CanonPhone
    /\ sales[1].agent_name = "Raj"
    /\ ~sales[1].opted_out

\* C6: over any sequence of /api/new-sale calls, at most one gateway send is made
\* and at most one outbound_messages row is recorded for each Sale.
C6_OneTextPerSale ==
    \A i \in 1..Len(sales) :
       /\ Cardinality({k \in 1..Len(outbound) : outbound[k].sale_id = i}) <= 1
       /\ Cardinality({k \in 1..Len(gateway) : gateway[k].to = sales[i].phone}) <= 1

\* C7: a /api/inbound-sms call whose lookup found a Sale for the sender and whose
\* text is " stOp\n" stores one inbound_messages row with that Sale's id and
\* leaves that Sale opted out; a call with another text changes no opted_out.
C7_StopOptsOut ==
    [][/\ \A g \in BagToSet(running') :
             (g.pc = "in_stored" /\ Starts(g))
             => /\ sales' = sales
                /\ g.sale_id # None
                   => /\ Len(inbound') = Len(inbound) + 1
                      /\ SubSeq(inbound', 1, Len(inbound)) = inbound
                      /\ inbound'[Len(inbound')].sale_id = g.sale_id
                      /\ inbound'[Len(inbound')].body = g.text
                      /\ g.sale_id[1] \in 1..Len(sales)
                      /\ sales[g.sale_id[1]].phone = inbound'[Len(inbound')].from_phone
       /\ \A h \in BagToSet(running) :
             (h.pc = "in_stored" /\ StepOf(h))
             => /\ Ends(h)
                /\ inbound' = inbound
                /\ (h.text = Some(TextStop) /\ h.sale_id # None)
                   => sales'[h.sale_id[1]].opted_out
                /\ h.text # Some(TextStop) => sales' = sales]_vars

C7_Witness ==
    /\ running = EmptyBag
    /\ \E k \in 1..Len(inbound) :
          /\ inbound[k].sale_id # None
          /\ inbound[k].body = Some(TextStop)
          /\ sales[inbound[k].sale_id[1]].opted_out

\* The step that accepts a /api/inbound-sms call whose lookup finds no Sale adds
\* one inbound_messages row, with a null sale_id, and changes no Sale.
InboundUnknownStores(g) ==
    (g.pc = "in_stored" /\ g.sale_id = None /\ Starts(g))
    => /\ Len(inbound') = Len(inbound) + 1
       /\ SubSeq(inbound', 1, Len(inbound)) = inbound
       /\ inbound'[Len(inbound')].sale_id = None
       /\ inbound'[Len(inbound')].from_phone = g.phone
       /\ sales' = sales

\* C8 as claimed: a /api/inbound-sms call whose lookup found no Sale stores one
\* inbound_messages row with a null sale_id and changes no Sale row, whatever its
\* text and whatever runs between its lookup and its update.
C8_UnknownPhoneNoMutation ==
    [][/\ \A g \in BagToSet(running') : InboundUnknownStores(g)
       /\ \A h \in BagToSet(running) :
             (h.pc = "in_stored" /\ h.sale_id = None /\ StepOf(h))
             => (sales' = sales /\ inbound' = inbound)]_vars

\* C8 as amended: such a call stores one row with a null sale_id; its last step
\* changes nothing but opted_out, to true, in the rows a /api/new-sale call has
\* inserted for the sender's phone since the lookup, and only when its text is
\* STOP; it changes no Sale row when there is no such row.
C8_UnknownPhoneOnlyOptsOutNewRows ==
    [][/\ \A g \in BagToSet(running') : InboundUnknownStores(g)
       /\ \A h \in BagToSet(running) :
             (h.pc = "in_stored" /\ h.sale_id = None /\ StepOf(h))
             => /\ inbound' = inbound
                /\ Len(sales') = Len(sales)
                /\ \A i \in 1..Len(sales) :
                      \/ sales'[i] = sales[i]
                      \/ /\ sales[i].phone = h.phone
                         /\ h.text = Some(TextStop)
                         /\ sales'[i] = [sales[i] EXCEPT !.opted_out = TRUE]
                /\ (\A i \in 1..Len(sales) : sales[i].phone # h.phone)
                   => sales' = sales]_vars

\* The only message came from a number with no Sale, and the Sale inserted for
\* that number since is opted out.
C8_Witness ==
    /\ Len(inbound) = 1
    /\ inbound[1].sale_id = None
    /\ \E i \in 1..Len(sales) :
          sales[i].phone = inbound[1].from_phone /\ sales[i].opted_out

\* C9: normalize_phone returns, for every string and for None, "+" followed by
\* the argument's digits in order, with "1" put after the "+" exactly when the
\* digits are ten.
C9_NormalizeShape ==
    LET arg == IF normIn = None THEN <<>> ELSE normIn[1]
        digits == SelectSeq(arg, LAMBDA c : c \in DigitChars)
    IN  /\ Len(normOut) >= 1
        /\ normOut[1] = "+"
        /\ Tail(normOut) = (IF Len(digits) = 10 THEN <<"1">> ELSE <<>>) \o digits

\* Ten digits and a separator went in, "+1" and the ten digits came out.
C9_Witness ==
    /\ normIn # None
    /\ Len(normIn[1]) = 11
    /\ normIn[1][4] = "-"
    /\ Cardinality({i \in 1..11 : normIn[1][i] = "-"}) = 1
    /\ Len(normOut) = 12
    /\ normOut[2] = "1"
    /\ normOut[3] = normIn[1][1]

\* C10: no step deletes a Sale row or turns opted_out from true to false; a row
\* is created with opted_out false; only the last step of a /api/inbound-sms call
\* whose text is STOP turns it to true.
C10_OptOutMonotonic ==
    [][/\ Len(sales') >= Len(sales)
       /\ \A i \in 1..Len(sales) :
             /\ sales'[i].id = sales[i].id
             /\ sales[i].opted_out => sales'[i].opted_out
             /\ (~sales[i].opted_out /\ sales'[i].opted_out)
                => \E h \in BagToSet(running) :
                      /\ h.pc = "in_stored"
                      /\ Ends(h)
                      /\ h.text = Some(TextStop)
                      /\ h.phone = sales[i].phone
       /\ \A i \in (Len(sales) + 1)..Len(sales') : ~sales'[i].opted_out]_vars

\* A Sale is opted out while a /api/new-sale call that found it not opted out is
\* about to send.
C10_Witness ==
    \E h \in Calls :
       /\ h.pc = "ns_send"
       /\ h.existing # None
       /\ sales[h.sale_id[1]].opted_out

=============================================================================
